---------------------------- MODULE Spec2Model ----------------------------
(***************************************************************************)
(* A model of the reading-practice front end (frontend/js/mobile-menu.js): *)
(* TextComparator, the word-by-word alignment of a reference passage with  *)
(* a recognised transcript and the rendering of its result, and            *)
(* SpeechRecognitionPractice, which collects the transcript.               *)
(*                                                                         *)
(* Strings are sequences of UTF-16 code units, each code unit a one-       *)
(* character TLA+ string ("a", ",", " ") or, outside ASCII, its code point *)
(* name ("U+0130").  Array and string indices keep the source's 0-based    *)
(* numbering; a TLA+ sequence holds index k at position k + 1.             *)
(*                                                                         *)
(* Similarity scores are kept as exact fractions <<num, den>>.  The source *)
(* computes them in IEEE-754 doubles; for the word lengths, offsets and    *)
(* thresholds of the input families below the double results compare       *)
(* exactly as the fractions do.  The accuracy percentage is computed in    *)
(* modelled double arithmetic (FDiv, FMul, MathRound), because there the   *)
(* rounding of the double decides the result.                              *)
(***************************************************************************)
EXTENDS Integers, Sequences, FiniteSets, TLC

VARIABLES
    family,               \* which input family the calls draw their arguments from
    originalText,         \* compare's 1st argument
    spokenText,           \* compare's 2nd argument
    similarityThreshold,  \* compare's 3rd argument, a fraction
    pc,                   \* position in compare: "start", "loop", "done"
    results,              \* the results object of compare
    usedSpokenIndices,    \* the Set of consumed spoken indices
    i,                    \* the loop variable of compare's outer for loop
    bestIndices,          \* value of the local bestIndex at the end of each iteration
    earlier,              \* an earlier finished call (arguments and result), or NoCall
    html,                 \* what generateResultHTML returned, or NoHtml
    practice,             \* the SpeechRecognitionPractice object's fields
    startsWaiting,        \* calls of start() waiting at their await
    engine,               \* the browser's SpeechRecognition object
    received,             \* final segments delivered by the engine since the last start
    outcomes,             \* what the caller was handed: callbacks run, values returned
    retry,                \* a call of ErrorHandler.retryOperation
    session               \* SessionManager, the clock, its timer and the storage

compareVars == <<family, originalText, spokenText, similarityThreshold, pc, results,
                 usedSpokenIndices, i, bestIndices, earlier>>

speechVars == <<practice, startsWaiting, engine, received, outcomes>>

serviceVars == <<retry, session>>

vars == <<compareVars, html, speechVars, serviceVars>>

-----------------------------------------------------------------------------
(* Small helpers                                                           *)

Max(a, b) == IF a >= b THEN a ELSE b

Min(a, b) == IF a <= b THEN a ELSE b

Abs(a) == IF a >= 0 THEN a ELSE -a

Min3(a, b, c) == Min(a, Min(b, c))

\* Fractions <<num, den>> with den > 0.
FracLess(a, b) == a[1] * b[2] < b[1] * a[2]

FracGeq(a, b) == a[1] * b[2] >= b[1] * a[2]

FracEq(a, b) == a[1] * b[2] = b[1] * a[2]

FracMul(a, b) == <<a[1] * b[1], a[2] * b[2]>>

-----------------------------------------------------------------------------
(* TextComparator.normalize and tokenize                                   *)

\* The character class of the first replace in normalize.
Punctuation ==
    {".", ",", "!", "?", ";", ":", "'", "\"", "(", ")", "[", "]", "{", "}"}

\* Characters matched by \s that occur in the modelled inputs.
Whitespace == {" ", "\t", "\n"}

\* String.prototype.toLowerCase on one code unit: the locale-independent
\* Unicode mapping.  LATIN CAPITAL LETTER I WITH DOT ABOVE (U+0130) maps to
\* the two code units "i" U+0307 (SpecialCasing); "I" maps to "i"; the
\* Turkish lower-case letters U+0131 (dotless i) and "i" are unchanged.
LowerOfChar(c) ==
    CASE c = "A" -> <<"a">>
      [] c = "B" -> <<"b">>
      [] c = "C" -> <<"c">>
      [] c = "D" -> <<"d">>
      [] c = "I" -> <<"i">>
      [] c = "K" -> <<"k">>
      [] c = "S" -> <<"s">>
      [] c = "U+0130" -> <<"i", "U+0307">>
      [] OTHER -> <<c>>

\* String.prototype.toLowerCase: the code units mapped one by one, in order
\* (the two halves of the string lower-cased and joined).
RECURSIVE toLowerCase(_)
toLowerCase(text) ==
    IF Len(text) = 0 THEN <<>>
    ELSE IF Len(text) = 1 THEN LowerOfChar(text[1])
    ELSE LET half == Len(text) \div 2 IN
         toLowerCase(SubSeq(text, 1, half))
             \o toLowerCase(SubSeq(text, half + 1, Len(text)))

\* .replace(/[.,!?;:'"()\[\]{}]/g, '')
RemovePunctuation(text) == SelectSeq(text, LAMBDA c : c \notin Punctuation)

\* .replace(/\s+/g, ' '): every maximal run of whitespace becomes one space
\* (the first character of a run becomes the space, the others go).
CollapseWhitespace(text) ==
    LET marked == [k \in 1..Len(text) |->
                     IF text[k] \notin Whitespace THEN text[k]
                     ELSE IF k > 1 /\ text[k - 1] \in Whitespace THEN ""
                     ELSE " "]
    IN  SelectSeq(marked, LAMBDA c : c # "")

\* .trim(): from the first to the last character that is not whitespace.
Trim(text) ==
    LET solid == {k \in 1..Len(text) : text[k] \notin Whitespace} IN
    IF solid = {} THEN <<>>
    ELSE SubSeq(text,
                CHOOSE k \in solid : \A l \in solid : k <= l,
                CHOOSE k \in solid : \A l \in solid : k >= l)

\* A slip of normalize: the punctuation removed last.
normalizePunctuationLast(text) ==
    RemovePunctuation(Trim(CollapseWhitespace(toLowerCase(text))))

normalize(text) ==
    Trim(CollapseWhitespace(RemovePunctuation(toLowerCase(text))))

\* String.prototype.split(' '): the pieces between single spaces, empty
\* pieces included ("".split(' ') is [""]).  Piece p runs from the space
\* before it (or the start) to the next space (or the end).
SplitOnSpace(text) ==
    LET spaces == {k \in 1..Len(text) : text[k] = " "}
        cuts   == spaces \cup {0, Len(text) + 1}
        before == [k \in cuts |-> Cardinality({l \in cuts : l < k})]
        cutAt  == [p \in 0..(Cardinality(spaces) + 1) |->
                      CHOOSE k \in cuts : before[k] = p]
    IN  [p \in 1..(Cardinality(spaces) + 1) |->
            SubSeq(text, cutAt[p - 1] + 1, cutAt[p] - 1)]

\* A slip of tokenize: the split without the filter.
tokenizeUnfiltered(text) == SplitOnSpace(normalize(text))

tokenize(text) ==
    SelectSeq(SplitOnSpace(normalize(text)), LAMBDA word : Len(word) > 0)

-----------------------------------------------------------------------------
(* TextComparator.levenshteinDistance and similarity                       *)

\* One row dp[r][0..n] of the table from the row above it; row[j + 1] holds
\* dp[r][j].  acc is the part of the row filled so far.
RECURSIVE LevRow(_, _, _, _)
LevRow(prev, ch, str2, acc) ==
    LET j == Len(acc) IN
    IF j > Len(str2) THEN acc
    ELSE LevRow(prev, ch, str2,
                Append(acc,
                       IF ch = str2[j]
                       THEN prev[j]
                       ELSE 1 + Min3(prev[j + 1], acc[j], prev[j])))

RECURSIVE LevRows(_, _, _, _)
LevRows(str1, str2, r, prev) ==
    IF r > Len(str1) THEN prev
    ELSE LevRows(str1, str2, r + 1, LevRow(prev, str1[r], str2, <<r>>))

\* A slip of levenshteinDistance: the two strings compared position by
\* position, without alignment.
levenshteinDistancePositional(str1, str2) ==
    Max(Len(str1), Len(str2))
        - Cardinality({k \in 1..Min(Len(str1), Len(str2)) : str1[k] = str2[k]})

levenshteinDistance(str1, str2) ==
    LevRows(str1, str2, 1, [j \in 1..(Len(str2) + 1) |-> j - 1])[Len(str2) + 1]

\* A slip of similarity: the distance ratio itself, without the "1 -".
similarityAsDistance(word1, word2) ==
    LET maxLen == Max(Len(word1), Len(word2)) IN
    IF maxLen = 0 THEN <<1, 1>>
    ELSE <<levenshteinDistance(word1, word2), maxLen>>

\* A slip of similarity: the ratio of the two lengths.
similarityOfLengths(word1, word2) ==
    LET maxLen == Max(Len(word1), Len(word2)) IN
    IF maxLen = 0 THEN <<1, 1>>
    ELSE <<Min(Len(word1), Len(word2)), maxLen>>

similarity(word1, word2) ==
    LET maxLen == Max(Len(word1), Len(word2)) IN
    IF maxLen = 0 THEN <<1, 1>>
    ELSE <<maxLen - levenshteinDistance(word1, word2), maxLen>>

-----------------------------------------------------------------------------
(* IEEE-754 double arithmetic for the accuracy percentage                  *)
(*                                                                         *)
(* A positive double is [m |-> bits, e |-> k]: bits is its 53-bit          *)
(* significand, most significant bit first (bits[1] = 1), and k the binary *)
(* exponent of the last bit; its value is (bits read as an integer) * 2^k. *)
(* Zero is FZero.  Every operation rounds to nearest, ties to even.        *)

SignificandBits == 53

FZero == [m |-> <<>>, e |-> 0]

\* The integer a bit sequence of at most 30 bits spells (its two halves
\* read in turn).
RECURSIVE BitsToInt(_)
BitsToInt(bits) ==
    IF Len(bits) = 0 THEN 0
    ELSE IF Len(bits) = 1 THEN bits[1]
    ELSE LET half == Len(bits) \div 2 IN
         BitsToInt(SubSeq(bits, 1, half)) * (2 ^ (Len(bits) - half))
             + BitsToInt(SubSeq(bits, half + 1, Len(bits)))

\* The last width bits of the integer n >= 0, most significant first.
BitsOf(n, width) == [j \in 1..width |-> (n \div (2 ^ (width - j))) % 2]

\* The bits of n > 0 from its first 1 on; none for 0.
IntToBits(n) ==
    IF n = 0 THEN <<>>
    ELSE BitsOf(n, CHOOSE w \in 1..30 : 2 ^ (w - 1) <= n /\ n < 2 ^ w)

\* bits + 1: the last 0 becomes 1 and the 1s after it become 0; a sequence
\* of 1s only becomes 1 followed by as many 0s.
Increment(bits) ==
    LET zeros == {k \in 1..Len(bits) : bits[k] = 0} IN
    IF zeros = {} THEN <<1>> \o [k \in 1..Len(bits) |-> 0]
    ELSE LET last == CHOOSE k \in zeros : \A l \in zeros : l <= k IN
         [k \in 1..Len(bits) |->
             IF k < last THEN bits[k] ELSE IF k = last THEN 1 ELSE 0]

\* The exact value bits * 2^e, plus a non-zero remainder below the last bit
\* when sticky holds, rounded to a double.  bits[1] = 1.
RoundToDouble(bits, e, sticky) ==
    LET len == Len(bits) IN
    IF len <= SignificandBits
    THEN [m |-> bits \o [k \in 1..(SignificandBits - len) |-> 0],
          e |-> e - (SignificandBits - len)]
    ELSE LET kept   == SubSeq(bits, 1, SignificandBits)
             half   == bits[SignificandBits + 1]
             rest   == sticky \/ \E k \in (SignificandBits + 2)..len : bits[k] = 1
             up     == half = 1 /\ (rest \/ kept[SignificandBits] = 1)
             raised == IF up THEN Increment(kept) ELSE kept
             drop   == len - SignificandBits
         IN  IF Len(raised) > SignificandBits
             THEN [m |-> SubSeq(raised, 1, SignificandBits), e |-> e + drop + 1]
             ELSE [m |-> raised, e |-> e + drop]

\* 2^k modulo m, by repeated squaring (m < 2^15).
RECURSIVE Pow2Mod(_, _)
Pow2Mod(k, m) ==
    IF k = 0 THEN 1 % m
    ELSE LET h == Pow2Mod(k \div 2, m) IN
         (h * h * (IF k % 2 = 1 THEN 2 ELSE 1)) % m

\* Bit k after the binary point of the quotient c / n (0 < c < n): the
\* parity of floor(c * 2^k / n).
QuotientBit(c, n, k) == ((c * Pow2Mod(k, 2 * n)) % (2 * n)) \div n

\* The double nearest to c / n for integers 0 <= c <= n, n > 0 (the operator
\* "/" applied to two integer-valued doubles): the quotient's bits from its
\* first 1 on, one bit more than a significand, and whether more follow.
FDiv(c, n) ==
    IF c = 0 THEN FZero
    ELSE IF c = n THEN RoundToDouble(<<1>>, 0, FALSE)
    ELSE LET first == CHOOSE k \in 1..16 :
                         /\ c * (2 ^ k) >= n
                         /\ c * (2 ^ (k - 1)) < n
             last  == first + SignificandBits
         IN  RoundToDouble([t \in 1..(SignificandBits + 1) |->
                               QuotientBit(c, n, first + t - 1)],
                           -last,
                           (c * Pow2Mod(last, n)) % n # 0)

\* bits * k + carry for a small integer k > 0: the product's low Len(bits)
\* bits and what is carried out above them.  The multiplication goes in
\* limbs of 18 bits, from the least significant limb up.
RECURSIVE MulBits(_, _, _)
MulBits(bits, k, carry) ==
    LET len == Len(bits) IN
    IF len <= 18
    THEN LET t == BitsToInt(bits) * k + carry IN
         [bits |-> BitsOf(t % (2 ^ len), len), carry |-> t \div (2 ^ len)]
    ELSE LET low  == MulBits(SubSeq(bits, len - 17, len), k, carry)
             high == MulBits(SubSeq(bits, 1, len - 18), k, low.carry)
         IN  [bits |-> high.bits \o low.bits, carry |-> high.carry]

\* The double nearest to f * k, for a double f and a small integer k > 0
\* (the operator "*" applied to f and the integer-valued double k).
FMul(f, k) ==
    IF f = FZero THEN FZero
    ELSE LET product == MulBits(f.m, k, 0) IN
         RoundToDouble(IntToBits(product.carry) \o product.bits, f.e, FALSE)

\* Math.round on a double 0 <= f < 2^31: the nearest integer, a tie going up.
MathRound(f) ==
    IF f = FZero THEN 0
    ELSE LET whole == SignificandBits + f.e IN    \* bits left of the binary point
         IF whole < 0 THEN 0
         ELSE BitsToInt(SubSeq(f.m, 1, whole))
              + (IF whole < SignificandBits THEN f.m[whole + 1] ELSE 0)

-----------------------------------------------------------------------------
(* TextComparator.compare                                                  *)

\* null, the initial bestMatch.  Like the empty string it is falsy, and no
\* token is empty, so "bestMatch &&" asks whether a candidate was taken.
null == <<>>

Truthy(value) == Len(value) > 0

\* The reach of the search window: i - 5 and i + 10.
WindowBefore == 5

WindowAfter == 10

searchStartOf(k) == Max(0, k - WindowBefore)

\* A slip of searchEndOf: the scan running to the end of the transcript.
searchEndUnbounded(k, spokenWords) == Len(spokenWords)

searchEndOf(k, spokenWords) == Min(Len(spokenWords), k + WindowAfter)

\* 1 - (Math.abs(i - j) * 0.02), as the fraction (50 - |i - j|) / 50.
\* A slip of positionBonus: 0.01 for 0.02.
positionBonusHalved(k, j) == <<100 - Abs(k - j), 100>>

\* A slip of positionBonus: no preference for the expected position.
positionBonusNone(k, j) == <<1, 1>>

positionBonus(k, j) == <<50 - Abs(k - j), 50>>

\* The locals bestSimilarity, bestMatch and bestIndex as each iteration
\* of the outer loop initialises them.
NoBest == [similarity |-> <<0, 1>>, match |-> null, index |-> -1]

\* The inner for loop over the window, from index j on: a candidate replaces
\* the best one only when its adjusted similarity is strictly greater.
RECURSIVE WindowScan(_, _, _, _, _, _)
WindowScan(originalWord, spokenWords, used, k, j, best) ==
    IF j >= searchEndOf(k, spokenWords) THEN best
    ELSE IF j \in used
    THEN WindowScan(originalWord, spokenWords, used, k, j + 1, best)
    ELSE LET spokenWord  == spokenWords[j + 1]
             adjustedSim == FracMul(similarity(originalWord, spokenWord),
                                    positionBonus(k, j))
         IN  WindowScan(originalWord, spokenWords, used, k, j + 1,
                        IF FracLess(best.similarity, adjustedSim)
                        THEN [similarity |-> adjustedSim,
                              match      |-> spokenWord,
                              index      |-> j]
                        ELSE best)

\* A slip of ExactMatchAnywhere: the second scan run whatever the window's
\* best score is.
ExactMatchAlways(originalWord, spokenWords, used, k, best) ==
    LET exact == {j \in 0..(Len(spokenWords) - 1) :
                     /\ j \notin used
                     /\ ~(j >= searchStartOf(k) /\ j < searchEndOf(k, spokenWords))
                     /\ spokenWords[j + 1] = originalWord}
    IN  IF exact = {} THEN best
        ELSE [similarity |-> <<1, 1>>,
              match      |-> originalWord,
              index      |-> CHOOSE j \in exact : \A l \in exact : j <= l]

\* A slip of ExactMatchAnywhere: the second scan run only when the window's
\* best score is below the default threshold.
ExactMatchBelowThreshold(originalWord, spokenWords, used, k, best) ==
    IF ~FracLess(best.similarity, <<7, 10>>) THEN best
    ELSE ExactMatchAlways(originalWord, spokenWords, used, k, best)

\* A slip of ExactMatchAnywhere: no second scan.
ExactMatchNever(originalWord, spokenWords, used, k, best) == best

\* The second scan: when the window's best stays below 0.9, the first unused
\* index outside the window holding exactly the original word wins with 1.
ExactMatchAnywhere(originalWord, spokenWords, used, k, best) ==
    IF ~FracLess(best.similarity, <<9, 10>>) THEN best
    ELSE LET exact == {j \in 0..(Len(spokenWords) - 1) :
                          /\ j \notin used
                          /\ ~(j >= searchStartOf(k) /\ j < searchEndOf(k, spokenWords))
                          /\ spokenWords[j + 1] = originalWord}
         IN  IF exact = {} THEN best
             ELSE LET first == CHOOSE j \in exact : \A l \in exact : j <= l IN
                  [similarity |-> <<1, 1>>,
                   match      |-> spokenWords[first + 1],
                   index      |-> first]

\* bestSimilarity, bestMatch and bestIndex when the two scans for the
\* original word at index k are over.
BestCandidate(originalWord, spokenWords, used, k) ==
    ExactMatchAnywhere(originalWord, spokenWords, used, k,
        WindowScan(originalWord, spokenWords, used, k, searchStartOf(k), NoBest))

\* A slip of Classify: no score below 0.5 is accepted as correct, whatever
\* the threshold.
ClassifyFloored(best, threshold) ==
    IF Truthy(best.match) /\ FracGeq(best.similarity, threshold)
                          /\ FracGeq(best.similarity, <<1, 2>>) THEN "correct"
    ELSE IF Truthy(best.match) /\ FracGeq(best.similarity, <<1, 2>>) THEN "incorrect"
    ELSE "missed"

\* A slip of Classify: ">" where the source has ">=" in the first test.
ClassifyStrict(best, threshold) ==
    IF Truthy(best.match) /\ FracLess(threshold, best.similarity) THEN "correct"
    ELSE IF Truthy(best.match) /\ FracGeq(best.similarity, <<1, 2>>) THEN "incorrect"
    ELSE "missed"

\* The if / else if / else that ends an iteration.
Classify(best, threshold) ==
    IF Truthy(best.match) /\ FracGeq(best.similarity, threshold) THEN "correct"
    ELSE IF Truthy(best.match) /\ FracGeq(best.similarity, <<1, 2>>) THEN "incorrect"
    ELSE "missed"

\* A slip of WordResult: original and spoken swapped in a match record.
WordResultSwapped(originalWord, best, status) ==
    IF status = "missed"
    THEN [original |-> originalWord, spoken |-> <<>>, status |-> status,
          similarity |-> <<0, 1>>]
    ELSE [original |-> best.match, spoken |-> originalWord, status |-> status,
          similarity |-> best.similarity]

\* The record pushed to results.wordResults.
WordResult(originalWord, best, status) ==
    IF status = "missed"
    THEN [original |-> originalWord, spoken |-> <<>>, status |-> status,
          similarity |-> <<0, 1>>]
    ELSE [original |-> originalWord, spoken |-> best.match, status |-> status,
          similarity |-> best.similarity]

\* A slip of UsedAfter: the best candidate consumed in every branch.
UsedAfterAnyCandidate(used, best, status) ==
    IF best.index # -1 THEN used \cup {best.index} ELSE used

\* A slip of UsedAfter: the incorrect branch without its add.
UsedAfterCorrectOnly(used, best, status) ==
    IF status = "correct" THEN used \cup {best.index} ELSE used

\* usedSpokenIndices.add(bestIndex), in the correct and incorrect branches.
UsedAfter(used, best, status) ==
    IF status = "missed" THEN used ELSE used \cup {best.index}

\* A slip of CountsAfter: the incorrect branch without its increment.
CountsAfterNoIncorrect(res, status) ==
    [res EXCEPT !.correctCount = @ + (IF status = "correct" THEN 1 ELSE 0),
                !.missedCount  = @ + (IF status = "missed" THEN 1 ELSE 0)]

\* A slip of CountsAfter: the else branch incrementing incorrectCount.
CountsAfterMissedAsIncorrect(res, status) ==
    [res EXCEPT !.correctCount   = @ + (IF status = "correct" THEN 1 ELSE 0),
                !.incorrectCount = @ + (IF status = "correct" THEN 0 ELSE 1)]

\* The three counters after the branch taken.
CountsAfter(res, status) ==
    [res EXCEPT !.correctCount   = @ + (IF status = "correct" THEN 1 ELSE 0),
                !.incorrectCount = @ + (IF status = "incorrect" THEN 1 ELSE 0),
                !.missedCount    = @ + (IF status = "missed" THEN 1 ELSE 0)]

\* A slip of ExtraCount: the operands of the subtraction swapped.
ExtraCountSwapped(spokenWords, used) ==
    Max(0, Cardinality(used) - Len(spokenWords))

\* Math.max(0, spokenWords.length - usedSpokenIndices.size)
ExtraCount(spokenWords, used) == Max(0, Len(spokenWords) - Cardinality(used))

\* A slip of Accuracy: the division without the test of line 474.  0 / 0
\* is NaN, and so is its rounded percentage; NaN is written -1 here.
AccuracyUnguarded(correctCount, originalCount) ==
    IF originalCount = 0 THEN -1
    ELSE MathRound(FMul(FDiv(correctCount, originalCount), 100))

\* Math.round((correctCount / originalWords.length) * 100), and the initial
\* 0 when there is no original word.
Accuracy(correctCount, originalCount) ==
    IF originalCount > 0
    THEN MathRound(FMul(FDiv(correctCount, originalCount), 100))
    ELSE 0

\* A slip of NewSet: one set shared by all calls, never emptied.
SharedSet(left) == left

\* const usedSpokenIndices = new Set(): whatever an earlier call left, the
\* call starts with an empty set of its own.
NewSet(left) == {}

\* The results object as compare creates it.
NewResults(originalWords, spokenWords) ==
    [originalWords  |-> originalWords,
     spokenWords    |-> spokenWords,
     wordResults    |-> <<>>,
     correctCount   |-> 0,
     incorrectCount |-> 0,
     missedCount    |-> 0,
     extraCount     |-> 0,
     accuracy       |-> 0]

-----------------------------------------------------------------------------
(* TextComparator.generateResultHTML                                       *)
(*                                                                         *)
(* The HTML text is a sequence of pieces: the characters of the words and  *)
(* of the numbers one by one, the double quote as a piece of its own, and  *)
(* the fixed markup and Turkish labels in larger pieces (letters outside   *)
(* ASCII written as their base letter).  The indentation between the tags  *)
(* of the summary is left out.                                             *)

Quote == "\""

\* `${number}`: the decimal digits of a natural number.
RECURSIVE DecimalString(_)
DecimalString(n) ==
    IF n < 10 THEN <<ToString(n)>>
    ELSE Append(DecimalString(n \div 10), ToString(n % 10))

\* Lines 488-492.
Tooltip(result) ==
    IF result.status = "incorrect"
    THEN <<"Soylenen: ", Quote>> \o result.spoken \o <<Quote>>
    ELSE IF result.status = "missed" THEN <<"Bu kelime okunmadi">>
    ELSE <<"Dogru">>

\* Line 494: one span and the space after it.
WordSpan(result) ==
    <<"<span", " class=", Quote, "word-", result.status, Quote, " title=", Quote>>
        \o Tooltip(result)
        \o <<Quote, ">">> \o result.original \o <<"</span>", " ">>

\* Lines 486-495: the spans of the records, in the order of forEach.
RECURSIVE WordSpans(_)
WordSpans(wordResults) ==
    IF wordResults = <<>> THEN <<>>
    ELSE WordSpan(Head(wordResults)) \o WordSpans(Tail(wordResults))

\* One summary-item div of lines 501-516.
SummaryItem(kind, icon, label, value) ==
    <<"<div", " class=", Quote, "summary-item ", kind, Quote, ">",
      "<i", " class=", Quote, icon, Quote, ">", "</i>",
      "<span>", label>> \o DecimalString(value) \o <<"</span>", "</div>">>

generateResultHTML(comparisonResults) ==
    <<"<div", " class=", Quote, "word-comparison", Quote, ">">>
        \o WordSpans(comparisonResults.wordResults)
        \o <<"</div>">>
        \o <<"<div", " class=", Quote, "result-summary", Quote, ">">>
        \o SummaryItem("correct", "fas fa-check-circle", "Dogru: ",
                       comparisonResults.correctCount)
        \o SummaryItem("incorrect", "fas fa-times-circle", "Hatali: ",
                       comparisonResults.incorrectCount)
        \o SummaryItem("missed", "fas fa-minus-circle", "Atlanmis: ",
                       comparisonResults.missedCount)
        \o SummaryItem("accuracy", "fas fa-percentage", "Dogruluk: %",
                       comparisonResults.accuracy)
        \o <<"</div>">>

-----------------------------------------------------------------------------
(* The arguments compare is called with                                    *)

\* Words joined by single spaces.
RECURSIVE Join(_)
Join(words) ==
    IF Len(words) = 0 THEN <<>>
    ELSE IF Len(words) = 1 THEN words[1]
    ELSE words[1] \o <<" ">> \o Join(Tail(words))

\* Every text of at most maxWords words taken from pieces.
TextsFrom(pieces, maxWords) ==
    {Join(words) : words \in UNION {[1..n -> pieces] : n \in 0..maxWords}}

\* count times the word, joined by single spaces.
Repeated(word, count) ==
    IF count = 0 THEN <<>>
    ELSE [k \in 1..(count * (Len(word) + 1) - 1) |->
             IF k % (Len(word) + 1) = 0 THEN " "
             ELSE word[k % (Len(word) + 1)]]

\* The default value of the parameter similarityThreshold, 0.70.
DefaultThreshold == <<7, 10>>

\* "general": short texts of words that are equal, half alike ("ab",
\* "abcx": similarity 1/2), a quarter alike ("abcx", "x") or unlike ("ab",
\* "x"), under the default threshold, one below 0.5 and one above 1.
MaxRefWords == 3

MaxSpokenWords == 3

GeneralPieces == {<<"a", "b">>, <<"a", "b", "c", "x">>, <<"x">>}

GeneralThresholds == {DefaultThreshold, <<1, 4>>, <<3, 2>>}

\* "boundary": ten-letter words at similarity 7/10 and 6/10 of one another.
MaxBoundaryWords == 2

BoundaryPieces ==
    {<<"a", "b", "c", "d", "e", "f", "g", "h", "i", "j">>,
     <<"a", "b", "c", "d", "e", "f", "g", "x", "y", "z">>,
     <<"a", "b", "c", "d", "e", "f", "w", "x", "y", "z">>,
     <<"q">>}

BoundaryThresholds == {DefaultThreshold, <<3, 5>>}

\* "long": a passage of one repeated word, read aloud up to some word.
MaxLongWords == 40

\* "repeat": the texts of calls that follow one another.
MaxRepeatWords == 1

RepeatPieces == {<<"a", "b">>, <<"a", "b", "c", "d">>}

\* "norm": the same words in other letter case and punctuation.  U+0130 is
\* the Turkish capital of "i"; the recogniser's language is tr-TR.
MaxNormWords == 1

NormPieces ==
    {<<"i", "s">>, <<"i", "S", ",">>, <<"U+0130", "s">>}

\* "tokens": every text of a few characters: letters of both cases, a
\* space, a tab and a comma, in any arrangement.
MaxTextLen == 5

TokenAlphabet == {"a", "B", " ", "\t", ","}

\* Every string of at most maxLen characters of the alphabet.
StringsOver(alphabet, maxLen) == UNION {[1..n -> alphabet] : n \in 0..maxLen}

\* "edit": every pair of strings of a few letters, each a text of one word
\* (or of none).
MaxWordLen == 4

EditAlphabet == {"a", "b"}

\* "window": a word ("abcd", once or twice) at the end of a reference of
\* unlike words, and a transcript of filler words around up to two words
\* that are the word itself or close to it ("abcx": similarity 3/4), at any
\* offset inside and outside the search window.  With seven words before
\* it the word has two indices (0 and 1) to the left of its window.
MaxLead == 7

MaxHeard == 11

\* count times the word, as a sequence of words.
Words(word, count) == [k \in 1..count |-> word]

WindowTargets == {<< <<"a", "b", "c", "d">> >>,
                  << <<"a", "b", "c", "d">>, <<"a", "b", "c", "d">> >>}

WindowHeard == {<<>>, << <<"a", "b", "c", "d">> >>, << <<"a", "b", "c", "x">> >>}

WindowOriginalTexts ==
    {Join(Words(<<"z">>, lead) \o target) :
        lead \in 0..MaxLead, target \in WindowTargets}

WindowSpokenTexts ==
    {Join(Words(<<"q">>, a) \o w1 \o Words(<<"q">>, b) \o w2 \o Words(<<"q">>, c)) :
        <<a, b, c, w1, w2>> \in
            {t \in (0..MaxHeard) \X (0..MaxHeard) \X (0..MaxHeard)
                       \X WindowHeard \X WindowHeard :
                t[1] + t[2] + t[3] + Len(t[4]) + Len(t[5]) <= MaxHeard}}

\* The original texts, spoken texts and thresholds of a family; every
\* combination is an input.
OriginalTexts(fam) ==
    CASE fam = "general"  -> TextsFrom(GeneralPieces, MaxRefWords)
      [] fam = "boundary" -> TextsFrom(BoundaryPieces, MaxBoundaryWords)
      [] fam = "long"     -> {Repeated(<<"a">>, n) : n \in 0..MaxLongWords}
      [] fam = "repeat"   -> TextsFrom(RepeatPieces, MaxRepeatWords)
      [] fam = "norm"     -> TextsFrom(NormPieces, MaxNormWords)
      [] fam = "tokens"   -> StringsOver(TokenAlphabet, MaxTextLen)
      [] fam = "window"   -> WindowOriginalTexts
      [] fam = "edit"     -> StringsOver(EditAlphabet, MaxWordLen)

SpokenTexts(fam) ==
    CASE fam = "general"  -> TextsFrom(GeneralPieces, MaxSpokenWords)
      [] fam = "window"   -> WindowSpokenTexts
      [] fam = "tokens"   -> {<<>>, <<"a">>}
      [] OTHER            -> OriginalTexts(fam)

Thresholds(fam) ==
    CASE fam = "general"  -> GeneralThresholds
      [] fam = "boundary" -> BoundaryThresholds
      [] OTHER            -> {DefaultThreshold}

-----------------------------------------------------------------------------
(* The state machine: one call of compare, statement by statement          *)

\* No call recorded yet.
\* generateResultHTML has not been called.
NoHtml == <<>>

\* The object as its constructor leaves it (lines 168-177), with init
\* having created the recognition object, and the engine at rest.
InitCapture ==
    /\ practice = [isRecording |-> FALSE, transcript |-> <<>>,
                   interimTranscript |-> <<>>,
                   onErrorCallback |-> FALSE, onEndCallback |-> FALSE]
    /\ startsWaiting = 0
    /\ engine = [state |-> "inactive", session |-> 0]
    /\ received = <<>>
    /\ outcomes = <<>>

\* retryOperation not called yet.
NoOperation ==
    [pc |-> "idle", maxRetries |-> 0, delay |-> 0, i |-> 0,
     calls |-> <<>>, waits |-> <<>>, outcome |-> [kind |-> "none", of |-> 0]]

\* session.js has been loaded on a protected page by a logged-in user:
\* the object literal of lines 4-16 at time 0, no timer, no warning in the
\* document, token and user in localStorage.  checks, warnedAt and
\* timedOutAt count the periodic checks and remember at which of them the
\* warning was shown and handleTimeout ran (0: at none).
LoadedSession ==
    [now |-> 0, lastActivity |-> 0, timeoutId |-> 0, warningShown |-> FALSE,
     interval |-> [running |-> FALSE, due |-> 0], modals |-> 0,
     token |-> TRUE, user |-> TRUE, page |-> "app",
     checks |-> 0, warnedAt |-> 0, timedOutAt |-> 0]

InitServices ==
    /\ retry = NoOperation
    /\ session = LoadedSession

NoCall ==
    [called |-> FALSE, originalText |-> <<>>, spokenText |-> <<>>,
     similarityThreshold |-> DefaultThreshold, results |-> NewResults(<<>>, <<>>)]

InitFamily(fam) ==
    /\ family = fam
    /\ originalText \in OriginalTexts(fam)
    /\ spokenText \in SpokenTexts(fam)
    /\ similarityThreshold \in Thresholds(fam)
    /\ pc = "start"
    /\ results = NewResults(<<>>, <<>>)
    /\ usedSpokenIndices = {}
    /\ i = 0
    /\ bestIndices = <<>>
    /\ earlier = NoCall
    /\ html = NoHtml
    /\ InitCapture
    /\ InitServices

Init == InitFamily("general")

\* Lines 378-393: tokenize both texts, create results and the set.
StartCompare ==
    /\ pc = "start"
    /\ results' = NewResults(tokenize(originalText), tokenize(spokenText))
    /\ usedSpokenIndices' = NewSet(usedSpokenIndices)
    /\ i' = 0
    /\ bestIndices' = <<>>
    /\ pc' = "loop"
    /\ UNCHANGED <<family, originalText, spokenText, similarityThreshold, earlier>>
    /\ UNCHANGED <<html, speechVars, serviceVars>>

\* Lines 396-468: one iteration of the outer loop.  best and status are the
\* one value each of the singleton sets they are drawn from.
MatchWord ==
    /\ pc = "loop"
    /\ i < Len(results.originalWords)
    /\ \E best \in {BestCandidate(results.originalWords[i + 1],
                                   results.spokenWords, usedSpokenIndices, i)} :
       \E status \in {Classify(best, similarityThreshold)} :
          /\ usedSpokenIndices' = UsedAfter(usedSpokenIndices, best, status)
          /\ results' = [CountsAfter(results, status) EXCEPT
                            !.wordResults =
                                Append(@, WordResult(results.originalWords[i + 1],
                                                     best, status))]
          /\ bestIndices' = Append(bestIndices, best.index)
    /\ i' = i + 1
    /\ UNCHANGED <<family, originalText, spokenText, similarityThreshold, pc, earlier>>
    /\ UNCHANGED <<html, speechVars, serviceVars>>

\* Lines 470-478: the loop is over; extraCount, accuracy, return.
Finish ==
    /\ pc = "loop"
    /\ i >= Len(results.originalWords)
    /\ results' = [results EXCEPT
                      !.extraCount = ExtraCount(results.spokenWords, usedSpokenIndices),
                      !.accuracy   = Accuracy(results.correctCount,
                                              Len(results.originalWords))]
    /\ pc' = "done"
    /\ UNCHANGED <<family, originalText, spokenText, similarityThreshold,
                   usedSpokenIndices, i, bestIndices, earlier>>
    /\ UNCHANGED <<html, speechVars, serviceVars>>

\* The caller calls compare again, keeping or not the result it just got.
\* Of the call that returned, only the set of used indices is kept in the
\* state, as that call left it.
CompareAgain ==
    /\ pc = "done"
    /\ \E keep \in BOOLEAN :
          earlier' = IF keep
                     THEN [called |-> TRUE, originalText |-> originalText,
                           spokenText |-> spokenText,
                           similarityThreshold |-> similarityThreshold,
                           results |-> results]
                     ELSE earlier
    /\ originalText' \in OriginalTexts(family)
    /\ spokenText' \in SpokenTexts(family)
    /\ similarityThreshold' \in Thresholds(family)
    /\ pc' = "start"
    /\ results' = NewResults(<<>>, <<>>)
    /\ i' = 0
    /\ bestIndices' = <<>>
    /\ UNCHANGED <<family, usedSpokenIndices>>
    /\ UNCHANGED <<html, speechVars, serviceVars>>

Next == StartCompare \/ MatchWord \/ Finish

Spec == Init /\ [][Next]_vars

InitBoundary == InitFamily("boundary")

SpecBoundary == InitBoundary /\ [][Next]_vars

InitLong == InitFamily("long")

SpecLong == InitLong /\ [][Next]_vars

NextRepeat == Next \/ CompareAgain

InitRepeat == InitFamily("repeat")

SpecRepeat == InitRepeat /\ [][NextRepeat]_vars

InitNorm == InitFamily("norm")

SpecNorm == InitNorm /\ [][NextRepeat]_vars

InitTokens == InitFamily("tokens")

SpecTokens == InitTokens /\ [][Next]_vars

InitEdit == InitFamily("edit")

SpecEdit == InitEdit /\ [][Next]_vars

InitWindow == InitFamily("window")

SpecWindow == InitWindow /\ [][Next]_vars

\* Lines 484-522: the caller renders the result compare returned.
GenerateResultHTML ==
    /\ pc = "done"
    /\ html' = generateResultHTML(results)
    /\ pc' = "rendered"
    /\ UNCHANGED <<family, originalText, spokenText, similarityThreshold, results,
                   usedSpokenIndices, i, bestIndices, earlier>>
    /\ UNCHANGED <<speechVars, serviceVars>>

NextRender == Next \/ GenerateResultHTML

SpecRender == Init /\ [][NextRender]_vars

\* Before the call: no argument is bound yet.
InitIdle ==
    /\ family = "general"
    /\ originalText = <<>>
    /\ spokenText = <<>>
    /\ similarityThreshold = DefaultThreshold
    /\ pc = "idle"
    /\ results = NewResults(<<>>, <<>>)
    /\ usedSpokenIndices = {}
    /\ i = 0
    /\ bestIndices = <<>>
    /\ earlier = NoCall
    /\ html = NoHtml
    /\ InitCapture
    /\ InitServices

\* Line 377: the caller calls compare with some arguments.
Call ==
    /\ pc = "idle"
    /\ originalText' \in OriginalTexts(family)
    /\ spokenText' \in SpokenTexts(family)
    /\ similarityThreshold' \in Thresholds(family)
    /\ pc' = "start"
    /\ UNCHANGED <<family, results, usedSpokenIndices, i, bestIndices, earlier>>
    /\ UNCHANGED <<html, speechVars, serviceVars>>

NextCall == Call \/ Next

\* The control flow of compare: the guards of StartCompare, MatchWord and
\* Finish and what they do to pc and i.  It is enabled exactly when Next is
\* (the assignments Next adds are to total expressions), and a step of Next
\* is a step of it.
ControlStep ==
    \/ /\ pc = "start"
       /\ pc' = "loop"
       /\ i' = 0
    \/ /\ pc = "loop"
       /\ i < Len(results.originalWords)
       /\ pc' = pc
       /\ i' = i + 1
    \/ /\ pc = "loop"
       /\ i >= Len(results.originalWords)
       /\ pc' = "done"
       /\ i' = i

\* compare is synchronous: once called it runs every statement to its
\* return, so a step of the call that can be taken is taken.  Nothing
\* obliges the caller to call.
SpecFair == InitIdle /\ [][NextCall]_vars /\ WF_<<pc, i>>(ControlStep)

-----------------------------------------------------------------------------
(* SpeechRecognitionPractice                                               *)
(*                                                                         *)
(* practice holds the object's fields (a callback field is TRUE once the   *)
(* caller has registered a callback).  engine is the browser's             *)
(* SpeechRecognition object: "inactive" before start and after the end     *)
(* event, "active" while it listens, "stopping" after stop() until the end *)
(* event, "failed" between an error event and the end event that always    *)
(* follows it.  engine.session counts the captures the engine has started. *)
(* outcomes is what the caller has been handed so far.                     *)

MaxFinals == 2      \* final segments delivered after one start
MaxSessions == 2    \* captures the engine starts
MaxWaiting == 1     \* calls of start() waiting for the permission at a time
MaxOutcomes == 2    \* entries of outcomes

\* What the recogniser can deliver: final segments (one with the leading
\* space engines put before a continuation) and interim text.
FinalSegments == {<<"a">>, <<" ", "b">>}

InterimSegments == {<<"x">>}

ErrorCodes == {"no-speech"}

\* event.results from event.resultIndex on: the results this event brings
\* or changes, final ones before the interim ones that follow them.
RecognitionEvents ==
    LET finals   == {[transcript |-> t, isFinal |-> TRUE] : t \in FinalSegments}
        interims == {[transcript |-> t, isFinal |-> FALSE] : t \in InterimSegments}
    IN  {<<r>> : r \in finals \cup interims}
        \cup {<<f, r>> : f \in finals, r \in finals \cup interims}

\* Lines 205-212 with the test of line 207 removed.
RECURSIVE finalTranscriptOfAll(_)
finalTranscriptOfAll(eventResults) ==
    IF eventResults = <<>> THEN <<>>
    ELSE Head(eventResults).transcript \o <<" ">>
            \o finalTranscriptOfAll(Tail(eventResults))

\* Lines 205-212: finalTranscript at the end of the loop.
RECURSIVE finalTranscriptOf(_)
finalTranscriptOf(eventResults) ==
    IF eventResults = <<>> THEN <<>>
    ELSE (IF Head(eventResults).isFinal
          THEN Head(eventResults).transcript \o <<" ">>
          ELSE <<>>)
            \o finalTranscriptOf(Tail(eventResults))

\* Lines 205-212: interimTranscript at the end of the loop.
RECURSIVE interimTranscriptOf(_)
interimTranscriptOf(eventResults) ==
    IF eventResults = <<>> THEN <<>>
    ELSE (IF Head(eventResults).isFinal
          THEN <<>>
          ELSE Head(eventResults).transcript)
            \o interimTranscriptOf(Tail(eventResults))

\* The final segments an event delivers, in order.
FinalsIn(eventResults) ==
    [k \in 1..Len(SelectSeq(eventResults, LAMBDA r : r.isFinal)) |->
        SelectSeq(eventResults, LAMBDA r : r.isFinal)[k].transcript]

\* An entry of outcomes: the callback run or the method that returned, the
\* value handed over, the capture of the engine it belongs to, the final
\* segments delivered since the last start up to that moment, and whether
\* no start has emptied the transcript since the entry was made.
Outcome(kind, value) ==
    [kind |-> kind, value |-> value, session |-> engine.session,
     heard |-> received, sinceStart |-> TRUE]

\* A slip of Accumulate: "=" for "+=" at line 215.
AccumulateReplacing(transcript, finalTranscript) ==
    IF finalTranscript # <<>> THEN finalTranscript ELSE transcript

\* Lines 214-216: this.transcript after the loop.
Accumulate(transcript, finalTranscript) ==
    IF finalTranscript # <<>> THEN transcript \o finalTranscript ELSE transcript

\* Lines 313-315: onEnd(callback).
SetOnEnd ==
    /\ ~practice.onEndCallback
    /\ practice' = [practice EXCEPT !.onEndCallback = TRUE]
    /\ UNCHANGED <<startsWaiting, engine, received, outcomes>>
    /\ UNCHANGED <<compareVars, html, serviceVars>>

\* Lines 306-308: onError(callback).
SetOnError ==
    /\ ~practice.onErrorCallback
    /\ practice' = [practice EXCEPT !.onErrorCallback = TRUE]
    /\ UNCHANGED <<startsWaiting, engine, received, outcomes>>
    /\ UNCHANGED <<compareVars, html, serviceVars>>

\* Lines 269-274: start() is called (recognition exists) and waits for the
\* answer to the microphone request.
StartCall ==
    /\ startsWaiting < MaxWaiting
    /\ startsWaiting' = startsWaiting + 1
    /\ UNCHANGED <<practice, engine, received, outcomes>>
    /\ UNCHANGED <<compareVars, html, serviceVars>>

\* Lines 274-283: the answer arrives.  Without the permission start()
\* throws and nothing changes.  With it the transcripts are emptied,
\* isRecording is set and recognition.start() is called, which starts a
\* capture if the engine is at rest and throws InvalidStateError otherwise.
StartResume ==
    /\ startsWaiting > 0
    /\ startsWaiting' = startsWaiting - 1
    /\ \E hasPermission \in BOOLEAN :
          IF ~hasPermission
          THEN UNCHANGED <<practice, engine, received, outcomes>>
          ELSE /\ engine.state = "inactive" => engine.session < MaxSessions
               /\ outcomes' = [k \in DOMAIN outcomes |->
                                 [outcomes[k] EXCEPT !.sinceStart = FALSE]]
               /\ practice' = [practice EXCEPT !.transcript = <<>>,
                                               !.interimTranscript = <<>>,
                                               !.isRecording = TRUE]
               /\ received' = <<>>
               /\ engine' = IF engine.state = "inactive"
                            THEN [state |-> "active", session |-> engine.session + 1]
                            ELSE engine
    /\ UNCHANGED <<compareVars, html, serviceVars>>

\* Lines 288-294: stop().
Stop ==
    /\ Len(outcomes) < MaxOutcomes
    /\ IF practice.isRecording
       THEN /\ engine' = IF engine.state = "active"
                         THEN [engine EXCEPT !.state = "stopping"]
                         ELSE engine
            /\ practice' = [practice EXCEPT !.isRecording = FALSE]
       ELSE UNCHANGED <<practice, engine>>
    /\ outcomes' = Append(outcomes, Outcome("stop", Trim(practice.transcript)))
    /\ UNCHANGED <<startsWaiting, received>>
    /\ UNCHANGED <<compareVars, html, serviceVars>>

\* Lines 201-226: a result event of the running capture (results can still
\* arrive after stop(), until the end event).  The payload of the result
\* callback, the progress display, is not recorded in outcomes.
onresult ==
    /\ engine.state \in {"active", "stopping"}
    /\ \E eventResults \in RecognitionEvents :
          /\ Len(received) + Len(FinalsIn(eventResults)) <= MaxFinals
          /\ practice' = [practice EXCEPT
                !.transcript = Accumulate(practice.transcript,
                                          finalTranscriptOf(eventResults)),
                !.interimTranscript = interimTranscriptOf(eventResults)]
          /\ received' = received \o FinalsIn(eventResults)
    /\ UNCHANGED <<startsWaiting, engine, outcomes>>
    /\ UNCHANGED <<compareVars, html, serviceVars>>

\* Lines 228-233: an error event of the running capture.
onerror ==
    /\ engine.state \in {"active", "stopping"}
    /\ engine' = [engine EXCEPT !.state = "failed"]
    /\ IF practice.onErrorCallback
       THEN /\ Len(outcomes) < MaxOutcomes
            /\ \E error \in ErrorCodes :
                  outcomes' = Append(outcomes, Outcome("error", <<error>>))
       ELSE UNCHANGED outcomes
    /\ UNCHANGED <<practice, startsWaiting, received>>
    /\ UNCHANGED <<compareVars, html, serviceVars>>

\* Lines 235-240: the end event, which closes every capture, whether it
\* was stopped, ran out by itself or failed.
onend ==
    /\ engine.state \in {"active", "stopping", "failed"}
    /\ engine' = [engine EXCEPT !.state = "inactive"]
    /\ practice' = [practice EXCEPT !.isRecording = FALSE]
    /\ IF practice.onEndCallback
       THEN /\ Len(outcomes) < MaxOutcomes
            /\ outcomes' = Append(outcomes, Outcome("end", Trim(practice.transcript)))
       ELSE UNCHANGED outcomes
    /\ UNCHANGED <<startsWaiting, received>>
    /\ UNCHANGED <<compareVars, html, serviceVars>>

NextSpeech ==
    \/ SetOnEnd
    \/ SetOnError
    \/ StartCall
    \/ StartResume
    \/ Stop
    \/ onresult
    \/ onerror
    \/ onend

SpecSpeech == InitIdle /\ [][NextSpeech]_vars

-----------------------------------------------------------------------------
(* ErrorHandler.retryOperation                                             *)
(*                                                                         *)
(* retry.calls holds the fate of every call of fn made so far ("pending"   *)
(* while it is awaited), retry.waits the times handed to setTimeout, and   *)
(* retry.outcome how the promise of retryOperation settled: resolved with  *)
(* the value of call number `of`, rejected with its error, or resolved     *)
(* with undefined.                                                        *)

MaxRetriesArg == 5    \* the largest maxRetries a call is made with

\* The values of the argument delay, in ms (1000 is the default).
Delays == {0, 1, 1000}

\* A slip of waitTimeOf: a wait growing by delay at every retry.
waitTimeLinear(delay, k) == delay * (k + 1)

\* Line 188: delay * Math.pow(2, i).
waitTimeOf(delay, k) == delay * 2^k

\* Lines 179-180: the test of the for loop and, when it holds, the call of
\* fn; when it fails the function ends without a return statement.
LoopTest(operation) ==
    IF operation.i < operation.maxRetries
    THEN [operation EXCEPT !.pc = "calling", !.calls = Append(@, "pending")]
    ELSE [operation EXCEPT !.pc = "returned",
                           !.outcome = [kind |-> "undefined", of |-> 0]]

\* Lines 178-181: retryOperation is called and reaches its first await.
RetryOperation ==
    /\ retry.pc = "idle"
    /\ \E maxRetries \in 0..MaxRetriesArg, delay \in Delays :
          retry' = LoopTest([NoOperation EXCEPT !.maxRetries = maxRetries,
                                                !.delay = delay])
    /\ UNCHANGED <<compareVars, html, speechVars, session>>

\* Line 181: the awaited call succeeds and its value is returned.
FnResolves ==
    /\ retry.pc = "calling"
    /\ retry' = [retry EXCEPT !.pc = "returned",
                              !.calls[Len(retry.calls)] = "resolved",
                              !.outcome = [kind |-> "resolved",
                                           of |-> Len(retry.calls)]]
    /\ UNCHANGED <<compareVars, html, speechVars, session>>

\* Lines 182-190: the awaited call fails: the error is thrown on at the
\* last round, otherwise the wait is started.
FnRejects ==
    /\ retry.pc = "calling"
    /\ retry' = IF retry.i = retry.maxRetries - 1
                THEN [retry EXCEPT !.pc = "thrown",
                                   !.calls[Len(retry.calls)] = "rejected",
                                   !.outcome = [kind |-> "rejected",
                                                of |-> Len(retry.calls)]]
                ELSE [retry EXCEPT !.pc = "waiting",
                                   !.calls[Len(retry.calls)] = "rejected",
                                   !.waits = Append(@, waitTimeOf(retry.delay, retry.i))]
    /\ UNCHANGED <<compareVars, html, speechVars, session>>

\* Lines 190-191 and 179: the timer fires, i++ and the next round.
TimerFires ==
    /\ retry.pc = "waiting"
    /\ retry' = LoopTest([retry EXCEPT !.i = @ + 1])
    /\ UNCHANGED <<compareVars, html, speechVars, session>>

NextRetry == RetryOperation \/ FnResolves \/ FnRejects \/ TimerFires

SpecRetry == InitIdle /\ [][NextRetry]_vars

-----------------------------------------------------------------------------
(* SessionManager                                                          *)
(*                                                                         *)
(* Time is counted in minutes.  session.interval is the browser's timer    *)
(* made by setInterval: it fires when the clock reaches interval.due, on   *)
(* time, and is then due again CHECK_INTERVAL later.  init runs as soon as *)
(* the page is loaded, before time passes.                                 *)

\* Lines 6, 9 and 12, in minutes.
SESSION_TIMEOUT == 30

CHECK_INTERVAL == 5

WARNING_BEFORE == 5

MaxTime == 40    \* the clock stops here

\* init has run: the listeners are in place.
Initialised == session.timeoutId # 0

\* Line 60: the test that shows the warning.
WarningDue(timeSinceActivity, warningShown) ==
    timeSinceActivity >= SESSION_TIMEOUT - WARNING_BEFORE /\ ~warningShown

\* A slip of TimeoutDue: the logout at the time of the warning.
TimeoutDueAtWarning(timeSinceActivity) ==
    timeSinceActivity >= SESSION_TIMEOUT - WARNING_BEFORE

\* Line 66: the test that logs the user out.
TimeoutDue(timeSinceActivity) == timeSinceActivity >= SESSION_TIMEOUT

\* Lines 39-42: updateActivity.
updateActivity(manager) ==
    [manager EXCEPT !.lastActivity = manager.now, !.warningShown = FALSE]

\* Lines 128-135: handleTimeout, at the check with the given number.
handleTimeout(manager, check) ==
    [manager EXCEPT !.interval.running = FALSE,
                    !.token = FALSE,
                    !.user = FALSE,
                    !.page = "login",
                    !.timedOutAt = check]

\* Lines 98-114 and 62: the warning is put in the document, at the check
\* with the given number.
showTimeoutWarning(manager, check) ==
    [manager EXCEPT !.modals = @ + 1, !.warningShown = TRUE, !.warnedAt = check]

\* Lines 21-34 and 47-51: init on DOMContentLoaded adds the listeners and
\* starts the periodic check.
SessionInit ==
    /\ session.page = "app"
    /\ ~Initialised
    /\ session' = [session EXCEPT
                      !.timeoutId = 1,
                      !.interval = [running |-> TRUE,
                                    due |-> session.now + CHECK_INTERVAL]]
    /\ UNCHANGED <<compareVars, html, speechVars, retry>>

\* A minute passes; a timer that is due fires first.
Tick ==
    /\ session.page = "app"
    /\ Initialised
    /\ session.now < MaxTime
    /\ session.interval.running => session.now < session.interval.due
    /\ session' = [session EXCEPT !.now = @ + 1]
    /\ UNCHANGED <<compareVars, html, speechVars, retry>>

\* Lines 48-50 and 56-69: the timer fires and checkSession runs.
CheckSession ==
    /\ session.page = "app"
    /\ session.interval.running
    /\ session.now = session.interval.due
    /\ \E timeSinceActivity \in {session.now - session.lastActivity} :
       \E check \in {session.checks + 1} :
       \E counted \in {[session EXCEPT !.checks = check,
                                       !.interval.due = @ + CHECK_INTERVAL]} :
       \E warned \in {IF WarningDue(timeSinceActivity, session.warningShown)
                      THEN showTimeoutWarning(counted, check)
                      ELSE counted} :
          session' = IF TimeoutDue(timeSinceActivity)
                     THEN handleTimeout(warned, check)
                     ELSE warned
    /\ UNCHANGED <<compareVars, html, speechVars, retry>>

\* Lines 23-25: a click, keypress, scroll or mousemove event.
ActivityEvent ==
    /\ session.page = "app"
    /\ Initialised
    /\ session' = updateActivity(session)
    /\ UNCHANGED <<compareVars, html, speechVars, retry>>

\* Lines 119-123: the button of the warning calls dismissWarning.
DismissWarning ==
    /\ session.page = "app"
    /\ session.modals > 0
    /\ session' = updateActivity([session EXCEPT !.modals = @ - 1])
    /\ UNCHANGED <<compareVars, html, speechVars, retry>>

\* Lines 150-154: stop() on logout.
StopSession ==
    /\ session.page = "app"
    /\ session.interval.running
    /\ session' = [session EXCEPT !.interval.running = FALSE]
    /\ UNCHANGED <<compareVars, html, speechVars, retry>>

\* Lines 74-93 and 141-145: the server refuses the token and
\* handleInvalidToken leaves the page, and its timer with it.
InvalidToken ==
    /\ session.page = "app"
    /\ Initialised
    /\ session' = [session EXCEPT !.token = FALSE, !.user = FALSE,
                                  !.page = "login",
                                  !.interval.running = FALSE]
    /\ UNCHANGED <<compareVars, html, speechVars, retry>>

NextSession ==
    \/ SessionInit
    \/ Tick
    \/ CheckSession
    \/ ActivityEvent
    \/ DismissWarning
    \/ StopSession
    \/ InvalidToken

SpecSession == InitIdle /\ [][NextSession]_vars

-----------------------------------------------------------------------------
(* Properties of the result compare returns                                *)

\* The call has returned.
Returned == pc = "done"

\* The tokens of the two arguments of the current call.
RefTokens == tokenize(originalText)

SpokenTokens == tokenize(spokenText)

\* The statuses of the word records, in order.
Statuses(res) == [k \in DOMAIN res.wordResults |-> res.wordResults[k].status]

\* C1: when compare returns, wordResults holds exactly one record per
\* reference token, and correctCount + incorrectCount + missedCount equals
\* the number of reference tokens.
C1_OneRecordPerReferenceWord ==
    Returned =>
        /\ Len(results.wordResults) = Len(RefTokens)
        /\ results.correctCount + results.incorrectCount + results.missedCount
              = Len(RefTokens)

\* A call that returned records of all three statuses.
C1_Witness ==
    /\ Returned
    /\ results.correctCount >= 1
    /\ results.incorrectCount >= 1
    /\ results.missedCount >= 1

\* C2: the original field of the k-th record is the k-th reference token,
\* whatever the record's status, at every point of the loop and on return;
\* on return there is such a record for every reference token.
C2_OriginalMirrorsReference ==
    /\ Len(results.wordResults) <= Len(RefTokens)
    /\ \A k \in DOMAIN results.wordResults :
          results.wordResults[k].original = RefTokens[k]
    /\ Returned => DOMAIN results.wordResults = DOMAIN RefTokens

\* A call that returned a record matched to a spoken word that differs
\* from the reference word, next to a missed one.
C2_Witness ==
    /\ Returned
    /\ \E k \in DOMAIN results.wordResults :
          /\ results.wordResults[k].status = "incorrect"
          /\ results.wordResults[k].spoken # results.wordResults[k].original
    /\ \E k \in DOMAIN results.wordResults :
          results.wordResults[k].status = "missed"

\* round(100 * c / n) in exact arithmetic, halves rounded up.
RoundedPercent(c, n) == (200 * c + n) \div (2 * n)

\* C3: accuracy is an integer from 0 to 100, equal to 100 * correctCount /
\* (number of reference tokens) rounded to the nearest integer, and 0 for
\* an empty reference.
C3_AccuracyIsRoundedPercentage ==
    Returned =>
        /\ results.accuracy \in 0..100
        /\ results.accuracy =
              IF Len(RefTokens) = 0 THEN 0
              ELSE RoundedPercent(results.correctCount, Len(RefTokens))

\* C4: a non-empty text compared with itself under the default threshold
\* has every reference word correct, accuracy 100, and no incorrect or
\* missed word.
C4_IdenticalTextsAllCorrect ==
    (/\ Returned
     /\ spokenText = originalText
     /\ similarityThreshold = DefaultThreshold
     /\ Len(RefTokens) > 0)
    => /\ results.correctCount = Len(RefTokens)
       /\ \A k \in DOMAIN results.wordResults :
             results.wordResults[k].status = "correct"
       /\ results.incorrectCount = 0
       /\ results.missedCount = 0
       /\ results.accuracy = 100

\* A text compared with itself that repeats a word and has two words that
\* are alike.
C4_Witness ==
    /\ Returned
    /\ spokenText = originalText
    /\ similarityThreshold = DefaultThreshold
    /\ Len(RefTokens) = 3
    /\ RefTokens[1] = RefTokens[3]
    /\ RefTokens[2] # RefTokens[1]
    /\ FracGeq(similarity(RefTokens[1], RefTokens[2]), <<1, 2>>)

\* C5, as the specification states it: for a reference text without tokens
\* compare returns no word records, accuracy 0, and correctCount,
\* incorrectCount, missedCount and extraCount all 0.
C5_EmptyReferenceAllCountsZero ==
    (Returned /\ Len(RefTokens) = 0)
    => /\ results.wordResults = <<>>
       /\ results.accuracy = 0
       /\ results.correctCount = 0
       /\ results.incorrectCount = 0
       /\ results.missedCount = 0
       /\ results.extraCount = 0

\* C5, amended: for a reference text without tokens compare returns no word
\* records, accuracy 0, correctCount, incorrectCount and missedCount 0, and
\* an extraCount equal to the number of spoken tokens.
C5_EmptyReferenceCountsSpokenAsExtra ==
    (Returned /\ Len(RefTokens) = 0)
    => /\ results.wordResults = <<>>
       /\ results.accuracy = 0
       /\ results.correctCount = 0
       /\ results.incorrectCount = 0
       /\ results.missedCount = 0
       /\ results.extraCount = Len(SpokenTokens)

\* An empty reference compared with two or more spoken words.
C5_Witness ==
    /\ Returned
    /\ Len(RefTokens) = 0
    /\ Len(SpokenTokens) >= 2

\* C6: for a spoken text without tokens every reference word has a record
\* of status missed with empty spoken field and similarity 0, missedCount
\* counts them all, and accuracy and extraCount are 0.
C6_EmptySpokenAllMissed ==
    (Returned /\ Len(SpokenTokens) = 0)
    => /\ Len(results.wordResults) = Len(RefTokens)
       /\ \A k \in DOMAIN results.wordResults :
             /\ results.wordResults[k].status = "missed"
             /\ results.wordResults[k].spoken = <<>>
             /\ FracEq(results.wordResults[k].similarity, <<0, 1>>)
       /\ results.missedCount = Len(RefTokens)
       /\ results.correctCount = 0
       /\ results.incorrectCount = 0
       /\ results.accuracy = 0
       /\ results.extraCount = 0

\* Three reference words compared with an empty spoken text.
C6_Witness ==
    /\ Returned
    /\ Len(SpokenTokens) = 0
    /\ Len(RefTokens) = 3
    /\ results.missedCount = 3

\* The similarity of the two words of a record.
PairSimilarity(record) == similarity(record.original, record.spoken)

\* The record at position k holds a spoken token.
Matched(k) == results.wordResults[k].status # "missed"

\* C7, as the specification states it: a matched record whose two words
\* have a similarity equal to the threshold is correct, and one whose
\* similarity is below the threshold (and at least 0.50) is incorrect.
C7_AtThresholdIsCorrect ==
    Returned =>
        \A k \in DOMAIN results.wordResults :
           Matched(k) =>
              /\ FracEq(PairSimilarity(results.wordResults[k]), similarityThreshold)
                    => results.wordResults[k].status = "correct"
              /\ (/\ FracLess(PairSimilarity(results.wordResults[k]),
                              similarityThreshold)
                  /\ FracGeq(PairSimilarity(results.wordResults[k]), <<1, 2>>))
                    => results.wordResults[k].status = "incorrect"

\* The spoken index j lies in the window of reference index k.
InWindow(k, j) ==
    /\ searchStartOf(k) <= j
    /\ j < searchEndOf(k, results.spokenWords)

\* C7, amended: a matched record whose two words have a similarity equal to
\* the threshold is correct when the spoken token stands at the reference
\* word's own index, and incorrect when it stands at another index of the
\* window, where the position bonus takes the score below the threshold; a
\* matched record with a similarity below the threshold is incorrect.
C7_AtThresholdAtSameIndexIsCorrect ==
    Returned =>
        \A k \in DOMAIN results.wordResults :
           Matched(k) =>
              /\ (/\ FracEq(PairSimilarity(results.wordResults[k]),
                            similarityThreshold)
                  /\ bestIndices[k] = k - 1)
                    => results.wordResults[k].status = "correct"
              /\ (/\ FracEq(PairSimilarity(results.wordResults[k]),
                            similarityThreshold)
                  /\ bestIndices[k] # k - 1
                  /\ InWindow(k - 1, bestIndices[k]))
                    => results.wordResults[k].status = "incorrect"
              /\ FracLess(PairSimilarity(results.wordResults[k]),
                          similarityThreshold)
                    => results.wordResults[k].status = "incorrect"

\* A word matched at its own index to a word exactly at the threshold, and
\* classified correct.
C7_Witness ==
    /\ Returned
    /\ \E k \in DOMAIN results.wordResults :
          /\ results.wordResults[k].status = "correct"
          /\ bestIndices[k] = k - 1
          /\ FracEq(PairSimilarity(results.wordResults[k]), similarityThreshold)
          /\ results.wordResults[k].spoken # results.wordResults[k].original

\* The spoken indices consumed by the match of some reference word.
Consumed == {bestIndices[k] : k \in {m \in DOMAIN results.wordResults : Matched(m)}}

\* The spoken indices no reference word consumed.
Unconsumed == {j \in 0..(Len(SpokenTokens) - 1) : j \notin Consumed}

\* The spoken tokens are the reference tokens followed by further words.
ReferenceThenMore ==
    /\ Len(RefTokens) <= Len(SpokenTokens)
    /\ SubSeq(SpokenTokens, 1, Len(RefTokens)) = RefTokens

LetterOf(c) ==
    CASE c = "S"      -> "s"
      [] c = "U+0130" -> "i"
      [] OTHER        -> c

\* A text without its punctuation and with every letter in lower case.
Fold(text) ==
    LET kept == SelectSeq(text, LAMBDA c : c \notin Punctuation)
    IN  [k \in DOMAIN kept |-> LetterOf(kept[k])]

\* The statuses, counts and accuracy of a result.
Summary(res) ==
    [statuses       |-> Statuses(res),
     correctCount   |-> res.correctCount,
     incorrectCount |-> res.incorrectCount,
     missedCount    |-> res.missedCount,
     extraCount     |-> res.extraCount,
     accuracy       |-> res.accuracy]

\* C9: two calls whose texts differ only by letter case and by characters
\* of the punctuation set, under the same threshold, return the same
\* statuses, counts and accuracy.
C9_CaseAndPunctuationInsensitive ==
    (/\ Returned
     /\ earlier.called
     /\ earlier.similarityThreshold = similarityThreshold
     /\ Fold(earlier.originalText) = Fold(originalText)
     /\ Fold(earlier.spokenText) = Fold(spokenText))
    => Summary(earlier.results) = Summary(results)

\* C10: a call with the same three arguments as an earlier call returns the
\* same result, whatever calls were made before or between the two.
C10_SameArgumentsSameResult ==
    (/\ Returned
     /\ earlier.called
     /\ earlier.originalText = originalText
     /\ earlier.spokenText = spokenText
     /\ earlier.similarityThreshold = similarityThreshold)
    => results = earlier.results

\* A call repeated after an earlier one that consumed a spoken index.
C10_Witness ==
    /\ Returned
    /\ earlier.called
    /\ earlier.originalText = originalText
    /\ earlier.spokenText = spokenText
    /\ earlier.similarityThreshold = similarityThreshold
    /\ earlier.results.correctCount >= 1
    /\ usedSpokenIndices # {}

\* A similarity field: a fraction from 0 to 1.
IsScore(f) ==
    /\ f \in Nat \X (Nat \ {0})
    /\ f[1] <= f[2]

\* A word is a non-empty string, and '' is the spoken field of a miss.
IsWordRecord(record) ==
    /\ DOMAIN record = {"original", "spoken", "status", "similarity"}
    /\ Len(record.original) > 0
    /\ record.status \in {"correct", "incorrect", "missed"}
    /\ record.status # "missed" => Len(record.spoken) > 0
    /\ IsScore(record.similarity)

\* The shape of the object compare returns.
WellFormed(res) ==
    /\ DOMAIN res = {"originalWords", "spokenWords", "wordResults", "correctCount",
                     "incorrectCount", "missedCount", "extraCount", "accuracy"}
    /\ \A k \in DOMAIN res.wordResults : IsWordRecord(res.wordResults[k])
    /\ res.correctCount \in Nat
    /\ res.incorrectCount \in Nat
    /\ res.missedCount \in Nat
    /\ res.extraCount \in Nat
    /\ res.accuracy \in 0..100

\* C11: every call of compare, whatever the two texts (empty ones included)
\* and the threshold, reaches its return statement, and what it returns is
\* a well-formed result; there is no other way out of the call.
C11_CompareIsTotal ==
    /\ [](pc \in {"idle", "start", "loop", "done"})
    /\ [](Returned => WellFormed(results))
    /\ [][pc # "idle" => ControlStep]_vars
    /\ (pc = "start") ~> Returned

\* A call with an empty reference, a non-empty spoken text and a threshold
\* above 1 that returned.
C11_Witness ==
    /\ Returned
    /\ WellFormed(results)
    /\ Len(RefTokens) = 0
    /\ Len(SpokenTokens) > 0
    /\ similarityThreshold = <<3, 2>>

\* The maximal runs of characters that are not whitespace, in the order
\* in which they stand in the text.
WordRuns(text) ==
    LET starts == {k \in 1..Len(text) :
                      /\ text[k] \notin Whitespace
                      /\ k = 1 \/ text[k - 1] \in Whitespace}
        endOf(k) == CHOOSE e \in k..Len(text) :
                       /\ \A m \in k..e : text[m] \notin Whitespace
                       /\ e = Len(text) \/ text[e + 1] \in Whitespace
        nth(n) == CHOOSE k \in starts : Cardinality({l \in starts : l < k}) = n - 1
    IN  [n \in 1..Cardinality(starts) |-> SubSeq(text, nth(n), endOf(nth(n)))]

\* The words of a text as written: each run in lower case and without
\* its punctuation, the runs of punctuation alone left out.
WrittenWords(text) ==
    SelectSeq([n \in DOMAIN WordRuns(text) |->
                  RemovePunctuation(toLowerCase(WordRuns(text)[n]))],
              LAMBDA word : word # <<>>)

\* C12: the tokens of a text are the maximal non-whitespace runs of its
\* normalized form, none of them empty, in their order in the text and
\* with their repetitions: they are the words of the text as written.
C12_TokensAreTheWordRuns ==
    pc # "start" =>
        /\ results.originalWords = WordRuns(normalize(originalText))
        /\ results.originalWords = WrittenWords(originalText)
        /\ \A k \in DOMAIN results.originalWords :
              /\ Len(results.originalWords[k]) > 0
              /\ \A m \in DOMAIN results.originalWords[k] :
                    results.originalWords[k][m] \notin Whitespace

\* A text that starts with whitespace, holds a comma and the same word
\* twice, in different letter case.
C12_Witness ==
    /\ pc # "start"
    /\ Len(originalText) > 0
    /\ originalText[1] \in Whitespace
    /\ \E k \in DOMAIN originalText : originalText[k] = ","
    /\ \E k \in DOMAIN originalText : originalText[k] = "B"
    /\ results.originalWords = << <<"b">>, <<"b">> >>

\* The spoken indices consumed before the record at position k was made.
ConsumedBefore(k) == {bestIndices[m] : m \in {n \in 1..(k - 1) : Matched(n)}}

\* The spoken indices the windowed search of the record at position k
\* (reference index k - 1) may look at: unconsumed, from 5 before to 9
\* after the reference index.
WindowIndices(k) ==
    {j \in Max(0, (k - 1) - 5)..(Min(Len(results.spokenWords), (k - 1) + 10) - 1) :
        j \notin ConsumedBefore(k)}

\* similarity * (1 - 0.02 * |i - j|) for the record at position k and the
\* spoken index j.
AdjustedScore(k, j) ==
    FracMul(similarity(results.originalWords[k], results.spokenWords[j + 1]),
            <<50 - Abs((k - 1) - j), 50>>)

\* C20: a spoken token that differs from the reference word is matched to
\* it only at an unconsumed index of the window; a candidate taken from the
\* window has the highest adjusted score of the window's unconsumed
\* indices; with no candidate every such score is 0, and a candidate from
\* outside the window is the reference word itself, found while every
\* score of the window was below 0.9.
C20_WindowedSearch ==
    Returned =>
    \A k \in DOMAIN results.wordResults :
       /\ (Matched(k) /\ results.wordResults[k].spoken # results.wordResults[k].original)
             => bestIndices[k] \in WindowIndices(k)
       /\ bestIndices[k] \in WindowIndices(k)
             => \A j \in WindowIndices(k) :
                   FracGeq(AdjustedScore(k, bestIndices[k]), AdjustedScore(k, j))
       /\ bestIndices[k] = -1
             => \A j \in WindowIndices(k) : FracEq(AdjustedScore(k, j), <<0, 1>>)
       /\ (bestIndices[k] # -1 /\ bestIndices[k] \notin WindowIndices(k))
             => /\ bestIndices[k] \in 0..(Len(results.spokenWords) - 1)
                /\ bestIndices[k] \notin ConsumedBefore(k)
                /\ results.spokenWords[bestIndices[k] + 1] = results.originalWords[k]
                /\ \A j \in WindowIndices(k) :
                      FracLess(AdjustedScore(k, j), <<9, 10>>)

\* A word matched to a close word nine places after its own index, the
\* last index of its window.
C20_Witness ==
    /\ Returned
    /\ \E k \in DOMAIN results.wordResults :
          /\ Matched(k)
          /\ results.wordResults[k].spoken # results.wordResults[k].original
          /\ bestIndices[k] = (k - 1) + 9
          /\ Len(results.spokenWords) > k + 9

\* C13, as the specification states it: the similarity field of a record
\* is a value from 0 to 1, the similarity of the record's reference token
\* and spoken token, and 0 in a missed record.
C13_FieldIsPairSimilarity ==
    Returned =>
        \A k \in DOMAIN results.wordResults :
           /\ IsScore(results.wordResults[k].similarity)
           /\ ~Matched(k) => FracEq(results.wordResults[k].similarity, <<0, 1>>)
           /\ Matched(k) => FracEq(results.wordResults[k].similarity,
                                   PairSimilarity(results.wordResults[k]))

\* C13, amended: the similarity field of a record is a value from 0 to 1:
\* 0 in a missed record; in a record matched inside the window the
\* position-adjusted score similarity * (1 - 0.02 * |i - j|) of the two
\* tokens, which is their similarity only at j = i; and 1 in a record
\* matched by the exact-match scan outside the window.
C13_FieldIsAdjustedScore ==
    Returned =>
        \A k \in DOMAIN results.wordResults :
           /\ IsScore(results.wordResults[k].similarity)
           /\ ~Matched(k) => FracEq(results.wordResults[k].similarity, <<0, 1>>)
           /\ Matched(k) =>
                 /\ results.wordResults[k].spoken
                       = results.spokenWords[bestIndices[k] + 1]
                 /\ FracEq(results.wordResults[k].similarity,
                           IF bestIndices[k] \in WindowIndices(k)
                           THEN AdjustedScore(k, bestIndices[k])
                           ELSE <<1, 1>>)

\* A result with a word matched to itself at another index of the window,
\* whose field is below the similarity 1 of the two tokens.
C13_Witness ==
    /\ Returned
    /\ \E k \in DOMAIN results.wordResults :
          /\ Matched(k)
          /\ bestIndices[k] # k - 1
          /\ bestIndices[k] \in WindowIndices(k)
          /\ results.wordResults[k].spoken = results.wordResults[k].original
          /\ FracLess(results.wordResults[k].similarity, <<1, 1>>)

\* The status the two-threshold policy gives a winner: exists says that
\* there is one, score is its score.
PolicyStatus(exists, score, correctThreshold) ==
    IF exists /\ FracGeq(score, correctThreshold) THEN "correct"
    ELSE IF exists /\ FracGeq(score, <<1, 2>>) /\ FracLess(score, correctThreshold)
         THEN "incorrect"
    ELSE "missed"

\* C18: in every iteration of the loop the status of the new record is
\* correct iff the search left a candidate with a score of at least the
\* threshold, incorrect iff it left one with a score of at least 0.50 and
\* below the threshold, and missed otherwise, for thresholds below 0.50
\* and above 1 as for the default.
C18_TwoThresholdClassification ==
    [][(pc = "loop" /\ i' = i + 1) =>
          \E best \in {BestCandidate(results.originalWords[i + 1],
                                     results.spokenWords, usedSpokenIndices, i)} :
             results'.wordResults[i + 1].status
                = PolicyStatus(best.index # -1, best.similarity, similarityThreshold)]_vars

\* A result under the threshold 0.25 with a record that is correct at a
\* score below 0.50.
C18_Witness ==
    /\ Returned
    /\ similarityThreshold = <<1, 4>>
    /\ \E k \in DOMAIN results.wordResults :
          /\ results.wordResults[k].status = "correct"
          /\ FracLess(results.wordResults[k].similarity, <<1, 2>>)

\* C19: every correct or incorrect record holds the token of one spoken
\* index, its own; no index serves two records; the consumed indices are
\* those of the correct and incorrect records alone, so a missed record
\* consumes none; and on return correctCount + incorrectCount + extraCount
\* is the number of spoken tokens.
C19_OneToOneMatching ==
    /\ \A k \in DOMAIN results.wordResults :
          Matched(k) =>
             /\ bestIndices[k] \in 0..(Len(results.spokenWords) - 1)
             /\ results.wordResults[k].spoken
                   = results.spokenWords[bestIndices[k] + 1]
             /\ \A m \in DOMAIN results.wordResults :
                   (Matched(m) /\ m # k) => bestIndices[m] # bestIndices[k]
    /\ pc \in {"loop", "done"} =>
          /\ usedSpokenIndices = Consumed
          /\ Cardinality(usedSpokenIndices)
                = results.correctCount + results.incorrectCount
    /\ Returned =>
          results.correctCount + results.incorrectCount + results.extraCount
             = Len(SpokenTokens)

\* A result in which a spoken token was the best candidate of a word that
\* was missed and was then consumed by a later word.
C19_Witness ==
    /\ Returned
    /\ \E k, m \in DOMAIN results.wordResults :
          /\ k < m
          /\ ~Matched(k)
          /\ Matched(m)
          /\ bestIndices[k] = bestIndices[m]

\* generateResultHTML has returned.
Rendered == pc = "rendered"

\* The first position from `from` on at which the piece stands in html
\* (one past the end if there is none).
FirstAt(from, piece) ==
    IF \E p \in from..Len(html) : html[p] = piece
    THEN CHOOSE p \in from..Len(html) :
            /\ html[p] = piece
            /\ \A q \in from..(p - 1) : html[q] # piece
    ELSE Len(html) + 1

\* The n-th position of a set of positions.
NthOf(positions, n) ==
    CHOOSE p \in positions : Cardinality({q \in positions : q < p}) = n - 1

\* The number a sequence of decimal digits spells.
RECURSIVE FromDecimal(_)
FromDecimal(digits) ==
    IF digits = <<>> THEN 0
    ELSE 10 * FromDecimal(SubSeq(digits, 1, Len(digits) - 1))
            + (CHOOSE v \in 0..9 : ToString(v) = digits[Len(digits)])

\* The summary as a reader of the HTML sees it: for every summary item,
\* its kind and the number in its text.
ShownInSummary ==
    {<<html[p + 1],
       FromDecimal(SubSeq(html, FirstAt(p, "<span>") + 2,
                          FirstAt(FirstAt(p, "<span>"), "</span>") - 1))>> :
        p \in {q \in 1..Len(html) : html[q] = "summary-item "}}

\* C16: the summary of the rendered result has an item for each of
\* correctCount, incorrectCount, missedCount and extraCount and one for the
\* accuracy, each showing the value of the result.
C16_SummaryShowsCountsAndAccuracy ==
    Rendered =>
        /\ <<"correct", results.correctCount>> \in ShownInSummary
        /\ <<"incorrect", results.incorrectCount>> \in ShownInSummary
        /\ <<"missed", results.missedCount>> \in ShownInSummary
        /\ <<"accuracy", results.accuracy>> \in ShownInSummary
        /\ \E shown \in ShownInSummary :
              /\ shown[1] \notin {"correct", "incorrect", "missed", "accuracy"}
              /\ shown[2] = results.extraCount

\* The span elements of the word list as an HTML parser reads them: a
\* double-quoted attribute value ends at the next double quote, the start
\* tag at the next ">", the element's text at "</span>".
ParsedSpans ==
    LET starts == {p \in 1..(FirstAt(1, "</div>") - 1) : html[p] = "<span"}
        classOpen(p)  == FirstAt(p, Quote)
        classClose(p) == FirstAt(classOpen(p) + 1, Quote)
        titleOpen(p)  == FirstAt(classClose(p) + 1, " title=") + 1
        titleClose(p) == FirstAt(titleOpen(p) + 1, Quote)
        tagEnd(p)     == FirstAt(titleClose(p) + 1, ">")
        textEnd(p)    == FirstAt(tagEnd(p) + 1, "</span>")
    IN  [n \in 1..Cardinality(starts) |->
            [class |-> SubSeq(html, classOpen(NthOf(starts, n)) + 1,
                              classClose(NthOf(starts, n)) - 1),
             title |-> SubSeq(html, titleOpen(NthOf(starts, n)) + 1,
                              titleClose(NthOf(starts, n)) - 1),
             text  |-> SubSeq(html, tagEnd(NthOf(starts, n)) + 1,
                              textEnd(NthOf(starts, n)) - 1)]]

\* The word stands somewhere in the text.
Contains(text, word) ==
    \E a \in 1..(Len(text) - Len(word) + 1) :
       SubSeq(text, a, a + Len(word) - 1) = word

\* C17: the word list has one span per record, in record order, whose text
\* is the reference token and whose class is that of the record's status;
\* its hover detail (the title) holds the spoken token when the status is
\* incorrect and is the fixed message when the status is missed.
C17_OneSpanPerRecord ==
    Rendered =>
        /\ Len(ParsedSpans) = Len(results.wordResults)
        /\ \A k \in DOMAIN results.wordResults :
              /\ ParsedSpans[k].text = results.wordResults[k].original
              /\ ParsedSpans[k].class = <<"word-", results.wordResults[k].status>>
              /\ results.wordResults[k].status = "incorrect"
                    => Contains(ParsedSpans[k].title, results.wordResults[k].spoken)
              /\ results.wordResults[k].status = "missed"
                    => ParsedSpans[k].title = <<"Bu kelime okunmadi">>

\* The entries of outcomes that hand a transcript over: the end callback
\* and the return of stop().
HandOvers == {k \in DOMAIN outcomes : outcomes[k].kind \in {"end", "stop"}}

\* The segments joined for alignment: each followed by one space.
RECURSIVE Joined(_)
Joined(segments) ==
    IF segments = <<>> THEN <<>>
    ELSE Joined(SubSeq(segments, 1, Len(segments) - 1))
            \o segments[Len(segments)] \o <<" ">>

InterimCharacters == {t[k] : t \in InterimSegments, k \in 1..1}

\* C14: a transcript handed over (argument of the end callback, return
\* value of stop()) is the final segments received since the last start,
\* in arrival order, joined by single spaces and trimmed; it holds no
\* interim text and nothing from before that start.
C14_TranscriptIsFinalsSinceStart ==
    \A k \in HandOvers :
       /\ outcomes[k].value = Trim(Joined(outcomes[k].heard))
       /\ \A c \in DOMAIN outcomes[k].value :
             outcomes[k].value[c] \notin InterimCharacters

\* Witness for C14: in a second capture, after interim text and a final
\* segment, the end callback hands over a transcript that is not the one the
\* first capture handed over.
C14_Witness ==
    \E k, l \in HandOvers :
       /\ k < l
       /\ outcomes[k].kind = "end" /\ outcomes[l].kind = "end"
       /\ outcomes[k].session = 1 /\ outcomes[l].session = 2
       /\ outcomes[k].heard # <<>>
       /\ outcomes[l].heard # <<>>
       /\ outcomes[l].heard # outcomes[k].heard
       /\ practice.interimTranscript # <<>>

\* C15: a capture gives the caller a transcript (end callback) or a failure
\* (error callback), never both: a capture in which an error was reported
\* delivers no transcript.
C15_TranscriptOrFailure ==
    \A k, l \in DOMAIN outcomes :
       outcomes[k].kind = "error" /\ outcomes[l].kind = "end"
          => outcomes[k].session # outcomes[l].session

\* The unconsumed indices outside the window of the record at position k
\* that hold the reference token itself.
ExactOutside(k) ==
    {j \in 0..(Len(results.spokenWords) - 1) :
        /\ j \notin ConsumedBefore(k)
        /\ ~InWindow(k - 1, j)
        /\ results.spokenWords[j + 1] = results.originalWords[k]}

\* Some unconsumed index of the window of the record at position k has an
\* adjusted score of 0.9 or more.
WindowReaches90(k) ==
    \E j \in WindowIndices(k) : FracGeq(AdjustedScore(k, j), <<9, 10>>)

\* C21: when the best adjusted score of the window is below 0.9 and an
\* unconsumed index outside the window holds the reference token itself,
\* the lowest such index becomes the candidate, with score 1; in every
\* other case (a window score of 0.9 or more, or no such index) the
\* candidate is the one the windowed search ended with: the first index
\* with the window's highest score, with that score, or none.
C21_FallbackExactMatchScan ==
    Returned =>
    \A k \in DOMAIN results.wordResults :
       \E b \in {bestIndices[k]} :
          IF ~WindowReaches90(k) /\ ExactOutside(k) # {}
          THEN /\ b \in ExactOutside(k)
               /\ \A j \in ExactOutside(k) : b <= j
               /\ results.wordResults[k].spoken = results.originalWords[k]
               /\ FracEq(results.wordResults[k].similarity, <<1, 1>>)
          ELSE IF b = -1
          THEN \A j \in WindowIndices(k) : FracEq(AdjustedScore(k, j), <<0, 1>>)
          ELSE /\ b \in WindowIndices(k)
               /\ \E score \in {AdjustedScore(k, b)} :
                     /\ \A j \in WindowIndices(k) :
                           /\ FracGeq(score, AdjustedScore(k, j))
                           /\ FracEq(score, AdjustedScore(k, j)) => b <= j
                     /\ Matched(k) =>
                           /\ results.wordResults[k].spoken
                                 = results.spokenWords[b + 1]
                           /\ FracEq(results.wordResults[k].similarity, score)

\* Witness for C21: a word with the reference token at the two indices left
\* of its window, matched to the lower one.
C21_Witness ==
    /\ Returned
    /\ \E k \in DOMAIN results.wordResults :
          /\ Cardinality(ExactOutside(k)) = 2
          /\ bestIndices[k] = 0
          /\ ~WindowReaches90(k)
\* The unconsumed indices of the window of the record at position k whose
\* token differs from the reference token and whose adjusted score is at
\* or above the threshold.
FuzzyAboveThreshold(k) ==
    {j \in WindowIndices(k) :
        /\ results.spokenWords[j + 1] # results.originalWords[k]
        /\ FracGeq(AdjustedScore(k, j), similarityThreshold)}

\* C22: with the default threshold, a reference word that has in its
\* window an unconsumed close word scoring at or above the threshold (the
\* window's best staying below 0.9) and outside its window an unconsumed
\* token equal to it, is matched to the token outside the window, and the
\* close word of the window stays unconsumed by that match.
C22_FarExactBeatsNearFuzzy ==
    (Returned /\ similarityThreshold = DefaultThreshold) =>
    \A k \in DOMAIN results.wordResults :
       (/\ FuzzyAboveThreshold(k) # {}
        /\ ~WindowReaches90(k)
        /\ ExactOutside(k) # {})
          => /\ bestIndices[k] \in ExactOutside(k)
             /\ results.wordResults[k].status = "correct"
             /\ \A j \in FuzzyAboveThreshold(k) : j \notin ConsumedBefore(k + 1)

\* Witness for C22: such an input: a close word at the reference word's
\* own index scores 0.75, and the word is matched to its equal ten places
\* further on; the close word ends up counted as extra.
C22_Witness ==
    /\ Returned
    /\ similarityThreshold = DefaultThreshold
    /\ \E k \in DOMAIN results.wordResults :
          /\ k - 1 \in FuzzyAboveThreshold(k)
          /\ ~WindowReaches90(k)
          /\ bestIndices[k] = (k - 1) + 10
          /\ bestIndices[k] \in ExactOutside(k)
          /\ k - 1 \in Unconsumed
\* The unconsumed indices of the window of the record at position k whose
\* token has some similarity to the reference token.
Candidates(k) ==
    {j \in WindowIndices(k) :
        FracLess(<<0, 1>>, similarity(results.originalWords[k],
                                      results.spokenWords[j + 1]))}

\* C23: of two unconsumed candidates of the window with the same non-zero
\* similarity to the reference token, the one farther from the reference
\* word's index is not the one taken.
C23_NearerOfEqualCandidates ==
    Returned =>
    \A k \in DOMAIN results.wordResults :
       \A near, far \in Candidates(k) :
          (/\ Abs((k - 1) - near) < Abs((k - 1) - far)
           /\ FracEq(similarity(results.originalWords[k], results.spokenWords[near + 1]),
                     similarity(results.originalWords[k], results.spokenWords[far + 1])))
             => bestIndices[k] # far

\* Witness for C23: two equally close words in the window, the farther one
\* scanned first, and the nearer one taken.
C23_Witness ==
    /\ Returned
    /\ \E k \in DOMAIN results.wordResults :
       \E near, far \in Candidates(k) :
          /\ far < near
          /\ Abs((k - 1) - near) < Abs((k - 1) - far)
          /\ results.spokenWords[near + 1] = results.spokenWords[far + 1]
          /\ results.spokenWords[near + 1] # results.originalWords[k]
          /\ bestIndices[k] = near
\* The unconsumed spoken indices, inside or outside the window, that hold
\* the reference token of the record at position k when it is processed.
ExactAnywhere(k) ==
    {j \in 0..(Len(results.spokenWords) - 1) :
        /\ j \notin ConsumedBefore(k)
        /\ results.spokenWords[j + 1] = results.originalWords[k]}

\* C27: with the default threshold, a reference word for which some
\* unconsumed spoken token, at any index, is equal to it when it is
\* processed, is classified correct.
C27_ExactMatchesAreNeverLost ==
    (Returned /\ similarityThreshold = DefaultThreshold) =>
    \A k \in DOMAIN results.wordResults :
       ExactAnywhere(k) # {} => results.wordResults[k].status = "correct"

\* Witness for C27: a word whose only equal token is six places before its
\* index, outside the window, with a close word in the window, and
\* classified correct.
C27_Witness ==
    /\ Returned
    /\ similarityThreshold = DefaultThreshold
    /\ \E k \in DOMAIN results.wordResults :
          /\ ExactAnywhere(k) = {(k - 1) - 6}
          /\ Candidates(k) # {}
          /\ results.wordResults[k].status = "correct"
\* The strings one insertion, deletion or substitution of a letter away
\* from the string.
OneEdit(str) ==
    {SubSeq(str, 1, k) \o <<c>> \o SubSeq(str, k + 1, Len(str)) :
        k \in 0..Len(str), c \in EditAlphabet}
    \cup {SubSeq(str, 1, k - 1) \o SubSeq(str, k + 1, Len(str)) : k \in 1..Len(str)}
    \cup {[str EXCEPT ![k] = c] : k \in 1..Len(str), c \in EditAlphabet}

\* The strings at most n such edits away from the string.
RECURSIVE Within(_, _)
Within(str, n) ==
    IF n = 0 THEN {str}
    ELSE LET near == Within(str, n - 1) IN
         near \cup UNION {OneEdit(t) : t \in near}

\* The unit-cost edit distance: the least number of edits that turn the
\* first string into the second (never more than the longer length).
EditDistance(str1, str2) ==
    CHOOSE n \in 0..Max(Len(str1), Len(str2)) :
        /\ str2 \in Within(str1, n)
        /\ n > 0 => str2 \notin Within(str1, n - 1)

\* C24: levenshteinDistance is the unit-cost edit distance of its two
\* arguments, and the length of the other argument when one is empty.
C24_LevenshteinIsEditDistance ==
    Returned =>
        /\ levenshteinDistance(originalText, spokenText)
              = EditDistance(originalText, spokenText)
        /\ originalText = <<>>
              => levenshteinDistance(originalText, spokenText) = Len(spokenText)
        /\ spokenText = <<>>
              => levenshteinDistance(originalText, spokenText) = Len(originalText)

\* Witness for C24: compare has measured two words of different lengths
\* that are one deletion and one substitution apart.
C24_Witness ==
    /\ Returned
    /\ originalText = <<"a", "b", "a", "b">>
    /\ spokenText = <<"b", "a", "a">>
    /\ levenshteinDistance(originalText, spokenText) = 2
    /\ Len(results.wordResults) = 1
\* C25: similarity is 1 - editDistance / max(len, len), 1 for two empty
\* strings, a value from 0 to 1, and 1 exactly when the two strings are
\* equal.
C25_SimilarityIsOneMinusDistanceRatio ==
    Returned =>
    \E sim \in {similarity(originalText, spokenText)} :
    \E maxLen \in {Max(Len(originalText), Len(spokenText))} :
       /\ maxLen > 0 =>
             FracEq(sim, <<maxLen - EditDistance(originalText, spokenText), maxLen>>)
       /\ maxLen = 0 => FracEq(sim, <<1, 1>>)
       /\ IsScore(sim)
       /\ FracEq(sim, <<1, 1>>) <=> originalText = spokenText

\* Witness for C25: compare has scored two different words of the same
\* length at 1/2 and recorded that score.
C25_Witness ==
    /\ Returned
    /\ originalText = <<"a", "b", "a", "b">>
    /\ spokenText = <<"a", "a", "a", "a">>
    /\ Len(results.wordResults) = 1
    /\ FracEq(results.wordResults[1].similarity, <<1, 2>>)
    /\ FracEq(similarity(originalText, spokenText), <<1, 2>>)
\* The upper-case letters of the modelled inputs.
UpperCaseLetters == {"A", "B", "C", "D", "I", "K", "S", "U+0130"}

\* A text as normalize must leave it: no upper-case letter, no punctuation
\* of the set, no whitespace at either end, no two whitespace characters in
\* a row.
IsNormal(text) ==
    /\ \A k \in DOMAIN text : text[k] \notin UpperCaseLetters \cup Punctuation
    /\ text # <<>> => text[1] \notin Whitespace /\ text[Len(text)] \notin Whitespace
    /\ \A k \in 1..(Len(text) - 1) :
          ~(text[k] \in Whitespace /\ text[k + 1] \in Whitespace)

\* C26: what normalize returns holds no upper-case letter, no punctuation
\* of the set, no whitespace at its ends and no run of whitespace, and
\* normalising it again changes nothing.
C26_NormalizeIsNormalAndIdempotent ==
    \A text \in {originalText, spokenText} :
       \E once \in {normalize(text)} :
          /\ IsNormal(once)
          /\ normalize(once) = once

\* Witness for C26: compare has tokenised a text with an upper-case letter
\* and a comma between a space and a tab.
C26_Witness ==
    /\ Returned
    /\ originalText = <<"B", " ", ",", "\t", "a">>
    /\ normalize(originalText) = <<"b", " ", "a">>
    /\ results.originalWords = << <<"b">>, <<"a">> >>
\* The first sequence is the start of the second.
IsPrefix(left, right) ==
    /\ Len(left) <= Len(right)
    /\ SubSeq(right, 1, Len(left)) = left

\* The pairs of entries of outcomes made since the last start: a return of
\* stop() and a later end callback.
StopThenEnd ==
    {pair \in (DOMAIN outcomes) \X (DOMAIN outcomes) :
        /\ pair[1] < pair[2]
        /\ outcomes[pair[1]].kind = "stop" /\ outcomes[pair[1]].sinceStart
        /\ outcomes[pair[2]].kind = "end" /\ outcomes[pair[2]].sinceStart}

FailedCalls == {k \in DOMAIN retry.calls : retry.calls[k] = "rejected"}

\* C29: fn is called at most maxRetries times, one call at a time; a call
\* that succeeds is the last one and its value is the result; when
\* maxRetries calls have been made and all have failed the operation fails
\* with the error of the last of them; and the wait before retry number k
\* is delay * 2^(k-1).
C29_RetryWithExponentialBackoff ==
    /\ Len(retry.calls) <= retry.maxRetries
    /\ Cardinality({k \in DOMAIN retry.calls : retry.calls[k] = "pending"})
          <= 1
    /\ \A k \in DOMAIN retry.calls :
          retry.calls[k] # "rejected"
             => /\ k = Len(retry.calls)
                /\ retry.calls[k] = "resolved"
                      => retry.outcome = [kind |-> "resolved", of |-> k]
    /\ retry.outcome.kind = "resolved" => retry.calls[retry.outcome.of] = "resolved"
    /\ (Len(retry.calls) >= 1 /\ FailedCalls = 1..retry.maxRetries)
          => retry.outcome = [kind |-> "rejected", of |-> retry.maxRetries]
    /\ retry.outcome.kind = "rejected" => FailedCalls = 1..retry.maxRetries
    /\ \A k \in DOMAIN retry.waits : retry.waits[k] = retry.delay * 2^(k - 1)
    /\ \A k \in DOMAIN retry.calls : k >= 2 => k - 1 \in DOMAIN retry.waits
    /\ Len(retry.waits) <= Len(retry.calls)

\* Witness for C29: with maxRetries 5 and the default delay the fourth call
\* succeeded after three failures and waits of 1000, 2000 and 4000 ms.
C29_Witness ==
    /\ retry.maxRetries = 5
    /\ retry.calls = <<"rejected", "rejected", "rejected", "resolved">>
    /\ retry.waits = <<1000, 2000, 4000>>
    /\ retry.outcome = [kind |-> "resolved", of |-> 4]

\* The user was logged out by the timeout.
TimedOut == session.timedOutAt # 0

\* C30: the user is logged out by timeout only at a periodic check at which
\* at least SESSION_TIMEOUT has passed since the last recorded activity,
\* with the warning of that idle period shown at an earlier check; token
\* and user are then gone from storage and the periodic check is stopped;
\* and whenever the recorded activity changes (an activity event, a
\* dismissed warning) it becomes the current time and the warning flag is
\* cleared.
C30_TimeoutOnlyAfterWarningAndInactivity ==
    /\ [](TimedOut =>
             /\ session.timedOutAt = session.checks
             /\ session.now - session.lastActivity >= SESSION_TIMEOUT
             /\ session.warningShown
             /\ session.warnedAt # 0
             /\ session.warnedAt < session.timedOutAt
             /\ ~session.token /\ ~session.user
             /\ ~session.interval.running)
    /\ [][/\ session'.timedOutAt # session.timedOutAt
             => /\ session'.checks = session.checks + 1
                /\ session.now = session.interval.due
                /\ session.now - session.lastActivity >= SESSION_TIMEOUT
          /\ session'.modals < session.modals
             => session'.lastActivity = session.now
          /\ session'.lastActivity # session.lastActivity
             => /\ session'.lastActivity = session.now
                /\ ~session'.warningShown]_vars

\* Witness for C30: after an activity at minute 3 the warning came at the
\* check of minute 30 and the logout at the check of minute 35.
C30_Witness ==
    /\ TimedOut
    /\ session.lastActivity = 3
    /\ session.now = 35
    /\ session.warnedAt = 6
    /\ session.timedOutAt = 7
    /\ session.page = "login"
=============================================================================
